---- MODULE Spec2Model ----
(***************************************************************************)
(* State-machine model of the structured-workflow MCP server: the single   *)
(* session kept by SessionManager and the tool handlers that read and      *)
(* mutate it (validate_action, validate_phase_completion, phase_output,    *)
(* the phase guidance tools, plan_workflow, build_custom_workflow).        *)
(* One action per tool handler; each action is the whole handler.          *)
(* Timestamps, ids and the literal guidance texts are left out.            *)
(***************************************************************************)
EXTENDS Integers, Sequences, FiniteSets, TLC

(***************************************************************************)
(* Bounds of the exploration.                                              *)
(***************************************************************************)
\* tool calls explored inside one session
MaxCalls == 3
\* largest iteration limit a caller passes to build_custom_workflow
MaxLimit == 1
\* longest list of selected phases a caller passes to build_custom_workflow
MaxPhases == 3

(***************************************************************************)
(* Types.                                                                  *)
(***************************************************************************)
Phase ==
  {"PLANNING", "AUDIT_INVENTORY", "COMPARE_ANALYZE", "QUESTION_DETERMINE",
   "WRITE_OR_REFACTOR", "TEST", "LINT", "ITERATE", "PRESENT",
   "USER_INPUT_REQUIRED"}

\* the phases the tools are called with in this model
ToolPhases == {"AUDIT_INVENTORY", "TEST", "LINT"}

\* file paths handed to validate_action
Paths == {"a.txt", "b.txt"}

\* FileHistory of a path that has no entry
DefaultFileHistory == [hasBeenRead |-> FALSE, hasBeenModified |-> FALSE]

initializeMetrics ==
  [filesAnalyzed |-> 0, filesModified |-> 0, lintIssuesFound |-> 0,
   lintIssuesFixed |-> 0, phasesCompleted |-> 0]

DefaultTestLimit == 5
DefaultLintLimit == 10
DefaultIterateLimit == 15

\* session.workflowConfig === undefined
NoConfig ==
  [defined |-> FALSE,
   selectedPhases |-> << >>,
   iterationLimits |-> [TEST |-> 0, LINT |-> 0, ITERATE |-> 0],
   escalationTriggers |-> [escalateOnIterationLimit |-> FALSE,
                           escalateOnErrors |-> FALSE]]

\* an action string of validate_action, by the two things the handler asks
\* of it: action.toLowerCase().includes('read') and isModificationAction
ActionKinds == [mentionsRead : BOOLEAN, modification : BOOLEAN]

NoAction == [mentionsRead |-> FALSE, modification |-> FALSE]

NoEscalation == [trigger |-> "none", attemptCount |-> 0]

\* build_custom_workflow called with the task only
NoParams ==
  [hasSelectedPhases |-> FALSE, selectedPhases |-> << >>,
   iterationLimits |-> [k \in {} |-> 0]]

\* a file name by its two leading digits and the phase it is named after
NoFileName == [digits |-> << >>, phaseName |-> "none"]

VARIABLES
  active,            \* SessionManager.session !== null
  currentPhase,      \* session.currentPhase
  completedPhases,   \* session.completedPhases
  phaseOutputs,      \* session.phaseOutputs  (Map: DOMAIN = keys)
  fileHistory,       \* session.fileHistory   (Map: DOMAIN = keys)
  metrics,           \* session.metrics
  workflowConfig,    \* session.workflowConfig
  iterationCounts,   \* session.iterationCounts (Map)
  validationStates,  \* session.validationStates (Map)
  result,            \* the response of the last tool call
  calls,             \* tool calls made in the current session
  readLog,           \* paths whose read was recorded in this session
  escalatedLog,      \* phases answered with an escalation in this session
  passedLog,         \* phases whose validation passed in this session
  deniedLog,         \* <<action, path>> of the calls denied in this session
  attemptLog,        \* per phase, the validations answered in this session
  ended              \* a session was ended and none has been started since

sessionVars ==
  <<active, currentPhase, completedPhases, phaseOutputs, fileHistory, metrics,
    workflowConfig, iterationCounts, validationStates>>

logVars == <<readLog, escalatedLog, passedLog, deniedLog, attemptLog, ended>>

vars == <<sessionVars, result, calls, logVars>>

\* what the properties need of a response: the tool and its target (file or
\* phase), the kind of answer, the escalation context, the action string of
\* validate_action, whether the answer tells the caller that no session is
\* active, the validationErrors of phase_output as pairs <<index of the
\* artifact, kind of error>>, and the phase the nextPhase of a passed
\* validation recommends; of a build_custom_workflow response the name of
\* the planning file and the nextSuggestedPhase of the workflow progress in
\* the workflow-status.json template, and the detectedType of the
\* suggestion it is wrapped in.  from, dropped and supplied are not in the
\* response: supplied remembers the params of a build_custom_workflow call;
\* they remember the current phase a guidance call found and the recorded
\* reads of the session a start call replaced.
Response(tool, target, outcome) ==
  [tool |-> tool, target |-> target, outcome |-> outcome,
   trigger |-> "none", attemptCount |-> 0, action |-> NoAction,
   noSession |-> (outcome = "no_session"), validationErrors |-> {},
   nextPhase |-> "none", planningFileName |-> NoFileName,
   nextSuggestedPhase |-> "none", detectedType |-> "none",
   from |-> "none", dropped |-> {}, supplied |-> NoParams]

(***************************************************************************)
(* The call handler of the server                                          *)
(***************************************************************************)
\* a call handler that lets the exception of a tool handler through
CaughtError_Rethrown(tool) == Response(tool, "none", "thrown")

\* every tool handler runs inside the try block of the call handler: what a
\* handler throws comes back as the error object of the catch block
CaughtError(tool) == Response(tool, "none", "error")

\* the case labels that route to handlePhaseGuidance
GuidanceCases ==
  {"audit_guidance", "inventory_guidance", "compare_analyze_guidance",
   "question_guidance", "determine_plan_guidance", "refactor_guidance",
   "lint_guidance", "iterate_guidance", "present_guidance"}

(***************************************************************************)
(* SessionManager                                                          *)
(***************************************************************************)
\* Map.set(key, value)
MapSet(map, key, value) ==
  [k \in (DOMAIN map) \cup {key} |-> IF k = key THEN value ELSE map[k]]

EmptyMap == [k \in {} |-> 0]

\* startSession that carries the file history over to the new session
startSession_KeepsHistory(config) ==
  /\ active' = TRUE
  /\ currentPhase' = "PLANNING"
  /\ completedPhases' = << >>
  /\ phaseOutputs' = EmptyMap
  /\ fileHistory' = fileHistory
  /\ metrics' = initializeMetrics
  /\ workflowConfig' = config
  /\ iterationCounts' = EmptyMap
  /\ validationStates' = EmptyMap
  /\ calls' = 0
  /\ readLog' = {}
  /\ escalatedLog' = {}
  /\ passedLog' = {}
  /\ deniedLog' = {}
  /\ attemptLog' = EmptyMap
  /\ ended' = FALSE

startSession(config) ==
  /\ active' = TRUE
  /\ currentPhase' = "PLANNING"
  /\ completedPhases' = << >>
  /\ phaseOutputs' = EmptyMap
  /\ fileHistory' = EmptyMap
  /\ metrics' = initializeMetrics
  /\ workflowConfig' = config
  /\ iterationCounts' = EmptyMap
  /\ validationStates' = EmptyMap
  /\ calls' = 0
  /\ readLog' = {}
  /\ escalatedLog' = {}
  /\ passedLog' = {}
  /\ deniedLog' = {}
  /\ attemptLog' = EmptyMap
  /\ ended' = FALSE

Includes(seq, x) == \E i \in 1..Len(seq) : seq[i] = x

\* index of x in seq counted from 1, 0 when absent (indexOf + 1)
IndexOf(seq, x) ==
  IF Includes(seq, x) THEN CHOOSE i \in 1..Len(seq) :
                             seq[i] = x /\ \A j \in 1..(i - 1) : seq[j] # x
  ELSE 0

\* "none": null
getNextSuggestedPhase ==
  IF ~(active /\ workflowConfig.defined) THEN "none"
  ELSE LET selectedPhases == workflowConfig.selectedPhases
           currentIndex == IndexOf(selectedPhases, currentPhase)
       IN IF currentIndex = 0 \/ currentIndex = Len(selectedPhases) THEN "none"
          ELSE selectedPhases[currentIndex + 1]

\* updatePhase that pushes the current phase without looking it up first
updatePhase_AlwaysPush(phase) ==
  IF ~active
  THEN UNCHANGED <<currentPhase, completedPhases, metrics>>
  ELSE /\ completedPhases' =
            IF currentPhase # phase
            THEN Append(completedPhases, currentPhase)
            ELSE completedPhases
       /\ currentPhase' = phase
       /\ metrics' = [metrics EXCEPT !.phasesCompleted = Len(completedPhases')]

\* updatePhase that completes the current phase on every call, also when
\* the current phase is requested again
updatePhase_CompletesCurrent(phase) ==
  IF ~active
  THEN UNCHANGED <<currentPhase, completedPhases, metrics>>
  ELSE /\ completedPhases' =
            IF ~Includes(completedPhases, currentPhase)
            THEN Append(completedPhases, currentPhase)
            ELSE completedPhases
       /\ currentPhase' = phase
       /\ metrics' = [metrics EXCEPT !.phasesCompleted = Len(completedPhases')]

\* updatePhase that only follows the configured sequence
updatePhase_Gated(phase) ==
  IF ~active \/ (workflowConfig.defined /\ phase # getNextSuggestedPhase
                                        /\ currentPhase # "PLANNING")
  THEN UNCHANGED <<currentPhase, completedPhases, metrics>>
  ELSE /\ completedPhases' =
            IF currentPhase # phase /\ ~Includes(completedPhases, currentPhase)
            THEN Append(completedPhases, currentPhase)
            ELSE completedPhases
       /\ currentPhase' = phase
       /\ metrics' = [metrics EXCEPT !.phasesCompleted = Len(completedPhases')]

updatePhase(phase) ==
  IF ~active
  THEN UNCHANGED <<currentPhase, completedPhases, metrics>>
  ELSE /\ completedPhases' =
            IF currentPhase # phase /\ ~Includes(completedPhases, currentPhase)
            THEN Append(completedPhases, currentPhase)
            ELSE completedPhases
       /\ currentPhase' = phase
       /\ metrics' = [metrics EXCEPT !.phasesCompleted = Len(completedPhases')]

\* recordPhaseOutput that keeps the entry a phase already has
recordPhaseOutput_KeepFirst(phase, output) ==
  IF ~active \/ phase \in DOMAIN phaseOutputs
  THEN UNCHANGED phaseOutputs
  ELSE phaseOutputs' = MapSet(phaseOutputs, phase, output)

recordPhaseOutput(phase, output) ==
  IF ~active
  THEN UNCHANGED phaseOutputs
  ELSE phaseOutputs' = MapSet(phaseOutputs, phase, output)

getFileHistory(filePath) ==
  IF ~active THEN DefaultFileHistory
  ELSE IF filePath \in DOMAIN fileHistory THEN fileHistory[filePath]
  ELSE DefaultFileHistory

\* recordFileRead that forgets to set the flag
recordFileRead_NoFlag(filePath) ==
  IF ~active
  THEN UNCHANGED <<fileHistory, metrics, readLog>>
  ELSE LET existing == IF filePath \in DOMAIN fileHistory
                       THEN fileHistory[filePath] ELSE DefaultFileHistory
       IN /\ fileHistory' = MapSet(fileHistory, filePath, existing)
          /\ metrics' = [metrics EXCEPT !.filesAnalyzed = @ + 1]
          /\ readLog' = readLog \cup {filePath}

recordFileRead(filePath) ==
  IF ~active
  THEN UNCHANGED <<fileHistory, metrics, readLog>>
  ELSE LET existing == IF filePath \in DOMAIN fileHistory
                       THEN fileHistory[filePath] ELSE DefaultFileHistory
       IN /\ fileHistory' =
               MapSet(fileHistory, filePath, [existing EXCEPT !.hasBeenRead = TRUE])
          /\ metrics' = [metrics EXCEPT !.filesAnalyzed = @ + 1]
          /\ readLog' = readLog \cup {filePath}

\* a recordFileModification that writes a new entry instead of spreading
\* the existing one
recordFileModification_DropsRead(filePath) ==
  IF ~active
  THEN UNCHANGED <<fileHistory, metrics>>
  ELSE LET existing == IF filePath \in DOMAIN fileHistory
                       THEN fileHistory[filePath] ELSE DefaultFileHistory
       IN /\ fileHistory' =
               MapSet(fileHistory, filePath,
                      [DefaultFileHistory EXCEPT !.hasBeenModified = TRUE])
          /\ metrics' = IF ~existing.hasBeenModified
                        THEN [metrics EXCEPT !.filesModified = @ + 1]
                        ELSE metrics

recordFileModification(filePath) ==
  IF ~active
  THEN UNCHANGED <<fileHistory, metrics>>
  ELSE LET existing == IF filePath \in DOMAIN fileHistory
                       THEN fileHistory[filePath] ELSE DefaultFileHistory
       IN /\ fileHistory' =
               MapSet(fileHistory, filePath, [existing EXCEPT !.hasBeenModified = TRUE])
          /\ metrics' = IF ~existing.hasBeenModified
                        THEN [metrics EXCEPT !.filesModified = @ + 1]
                        ELSE metrics

\* map.get(phase) || 0
CountOf(map, phase) == IF phase \in DOMAIN map THEN map[phase] ELSE 0

\* incrementIterationCount (SessionManager.ts 145-153) has no caller in any
\* tool handler, so no action of this model changes iterationCounts
getIterationCount(phase) ==
  IF ~active THEN 0 ELSE CountOf(iterationCounts, phase)

\* hasReachedIterationLimit comparing with > instead of >=
hasReachedIterationLimit_Strict(phase) ==
  IF ~(active /\ workflowConfig.defined) THEN FALSE
  ELSE LET currentCount == getIterationCount(phase)
           limits == workflowConfig.iterationLimits
       IN CASE phase = "TEST" -> currentCount > limits.TEST
            [] phase = "LINT" -> currentCount > limits.LINT
            [] phase = "ITERATE" -> currentCount > limits.ITERATE
            [] OTHER -> FALSE

hasReachedIterationLimit(phase) ==
  IF ~(active /\ workflowConfig.defined) THEN FALSE
  ELSE LET currentCount == getIterationCount(phase)
           limits == workflowConfig.iterationLimits
       IN CASE phase = "TEST" -> currentCount >= limits.TEST
            [] phase = "LINT" -> currentCount >= limits.LINT
            [] phase = "ITERATE" -> currentCount >= limits.ITERATE
            [] OTHER -> FALSE

\* vstates: session.validationStates as it is when the method is called
\* an escalation that is only considered for work that failed
shouldEscalateToUserInput_OnlyOnFailure(phase, vstates) ==
  IF ~(active /\ workflowConfig.defined) THEN NoEscalation
  ELSE IF phase \in DOMAIN vstates /\ vstates[phase].isComplete THEN NoEscalation
  ELSE LET config == workflowConfig.escalationTriggers
           iterationCount == getIterationCount(phase)
       IN IF config.escalateOnIterationLimit /\ hasReachedIterationLimit(phase)
          THEN [trigger |-> "iteration_limit", attemptCount |-> iterationCount]
          ELSE IF /\ config.escalateOnErrors
                  /\ phase \in DOMAIN vstates
                  /\ vstates[phase].attempts >= 3
               THEN [trigger |-> "validation_failure",
                     attemptCount |-> vstates[phase].attempts]
               ELSE NoEscalation

shouldEscalateToUserInput(phase, vstates) ==
  IF ~(active /\ workflowConfig.defined) THEN NoEscalation
  ELSE LET config == workflowConfig.escalationTriggers
           iterationCount == getIterationCount(phase)
       IN IF config.escalateOnIterationLimit /\ hasReachedIterationLimit(phase)
          THEN [trigger |-> "iteration_limit", attemptCount |-> iterationCount]
          ELSE IF /\ config.escalateOnErrors
                  /\ phase \in DOMAIN vstates
                  /\ vstates[phase].attempts >= 3
               THEN [trigger |-> "validation_failure",
                     attemptCount |-> vstates[phase].attempts]
               ELSE NoEscalation

\* the phase named by nextPhase of a passed validation, "none" for
\* 'Workflow complete! ...'; without a configuration the list is a default
getNextPhaseRecommendation(phase) ==
  LET selectedPhases == IF workflowConfig.defined THEN workflowConfig.selectedPhases
                        ELSE <<"AUDIT_INVENTORY", "WRITE_OR_REFACTOR", "TEST", "LINT",
                               "PRESENT">>
      currentIndex == IndexOf(selectedPhases, phase)
  IN IF currentIndex = 0 \/ currentIndex = Len(selectedPhases) THEN "none"
     ELSE selectedPhases[currentIndex + 1]

\* progressPercentage of getWorkflowProgress:
\* Math.round(completedPhases.length / selectedPhases.length * 100), which
\* is NaN or Infinity (isFinite FALSE) for an empty selectedPhases; without
\* a configuration the list is a default of six
progressPercentage ==
  LET total == IF workflowConfig.defined THEN Len(workflowConfig.selectedPhases) ELSE 6
      done == Len(completedPhases)
  IN [isFinite |-> total # 0,
      value |-> IF total # 0 THEN (200 * done + total) \div (2 * total) ELSE 0]

(***************************************************************************)
(* validate_action                                                         *)
(***************************************************************************)
\* utils/helpers is not part of the sources: the classifier is the one the
\* specification describes, a configured predicate on the action
isModificationAction(action) == action.modification

\* a rule that keeps refusing a call it has refused before
violatesReadBeforeWrite_Sticky(action, targetFile) ==
  /\ isModificationAction(action)
  /\ \/ ~getFileHistory(targetFile).hasBeenRead
     \/ <<action, targetFile>> \in deniedLog

\* a rule that is not enforced before the first guidance call
violatesReadBeforeWrite_AfterPlanning(action, targetFile) ==
  /\ isModificationAction(action)
  /\ ~getFileHistory(targetFile).hasBeenRead
  /\ currentPhase # "PLANNING"

\* isModificationAction(params.action) && !fileHistory.hasBeenRead
violatesReadBeforeWrite(action, targetFile) ==
  isModificationAction(action) /\ ~getFileHistory(targetFile).hasBeenRead

\* the allowed answer carries the reminder 'No active session. ...' when
\* there is no session; the denied answer is the same with and without one
handleValidateAction(action, targetFile) ==
  /\ active => calls < MaxCalls
  /\ calls' = IF active THEN calls + 1 ELSE calls
  /\ UNCHANGED <<active, currentPhase, completedPhases, phaseOutputs, workflowConfig,
                 iterationCounts, validationStates, escalatedLog, passedLog,
                 attemptLog, ended>>
  /\ IF violatesReadBeforeWrite(action, targetFile)
     THEN /\ result' = [Response("validate_action", targetFile, "denied")
                           EXCEPT !.action = action]
          /\ deniedLog' = IF active THEN deniedLog \cup {<<action, targetFile>>}
                          ELSE deniedLog
          /\ UNCHANGED <<fileHistory, metrics, readLog>>
     ELSE /\ IF action.mentionsRead
             THEN recordFileRead(targetFile)
             ELSE IF isModificationAction(action)
                  THEN recordFileModification(targetFile) /\ UNCHANGED readLog
                  ELSE UNCHANGED <<fileHistory, metrics, readLog>>
          /\ result' = [Response("validate_action", targetFile, "allowed")
                           EXCEPT !.action = action, !.noSession = ~active]
          /\ UNCHANGED deniedLog

(***************************************************************************)
(* validate_phase_completion                                               *)
(***************************************************************************)
\* ValidationCriteria of a phase: the boolean minimum requirements (all
\* expected true), the numeric minimum requirements, the expected files
\* (named relative to the output directory)
getDefaultValidationCriteria ==
  [boolReqs |-> {"workCompleted", "documented"},
   numReqs |-> EmptyMap,
   expectedFiles |-> {}]

getValidationCriteriaForPhase(phase) ==
  CASE phase = "AUDIT_INVENTORY" ->
         [boolReqs |-> {"responsibilitiesIdentified", "architecturalPrinciplesAnalyzed",
                        "dependenciesMapped", "targetFileRead", "impactAnalyzed",
                        "risksAssessed", "prioritiesSet"},
          numReqs |-> [changesIdentified |-> 10, outputFilesCreated |-> 5],
          expectedFiles |-> {"01-audit-findings.md", "01-audit-dependency-diagram.md",
                             "01-audit-principle-analysis.json",
                             "02-inventory-changes.json", "02-inventory-impact.md"}]
    [] phase = "WRITE_OR_REFACTOR" ->
         [boolReqs |-> {"filesModified", "changesDocumented", "planFollowed",
                        "safetyRuleObserved"},
          numReqs |-> [outputFilesCreated |-> 2],
          expectedFiles |-> {"03-write-progress.md", "03-write-changes.json"}]
    [] phase = "TEST" ->
         [boolReqs |-> {"testsExecuted", "resultsDocumented", "commandsRecorded"},
          numReqs |-> [outputFilesCreated |-> 2],
          expectedFiles |-> {"04-test-results.md", "04-test-metrics.json"}]
    [] phase = "LINT" ->
         [boolReqs |-> {"lintersExecuted", "resultsDocumented", "errorsAnalyzed"},
          numReqs |-> [outputFilesCreated |-> 1],
          expectedFiles |-> {"05-lint-results.md"}]
    [] OTHER -> getDefaultValidationCriteria

\* completedWork[requirement] as the checks see it: a work object is the set
\* of keys holding true and the map of keys holding a number
Truthy(work, requirement) ==
  \/ requirement \in work.truthy
  \/ requirement \in DOMAIN work.nums /\ work.nums[requirement] # 0

\* a comparison that asks for more than the minimum
MeetsMinimum_Strict(work, requirement, expectedValue) ==
  IF requirement \in DOMAIN work.nums THEN work.nums[requirement] > expectedValue
  ELSE IF requirement \in work.truthy THEN 1 > expectedValue
  ELSE FALSE

\* actualValue >= expectedValue with JavaScript's coercion: true is 1, a
\* missing or false value never reaches a positive minimum
MeetsMinimum(work, requirement, expectedValue) ==
  IF requirement \in DOMAIN work.nums THEN work.nums[requirement] >= expectedValue
  ELSE IF requirement \in work.truthy THEN 1 >= expectedValue
  ELSE FALSE

performPhaseValidation(work, createdFiles, criteria) ==
  LET failedBool == {r \in criteria.boolReqs : ~Truthy(work, r)}
      failedNum == {r \in DOMAIN criteria.numReqs :
                      ~MeetsMinimum(work, r, criteria.numReqs[r])}
      failedFiles == {f \in criteria.expectedFiles : f \notin createdFiles}
      failed == failedBool \cup failedNum \cup failedFiles
      all == criteria.boolReqs \cup (DOMAIN criteria.numReqs) \cup criteria.expectedFiles
  IN [isComplete |-> failed = {},
      passed |-> all \ failed,
      failed |-> failed]

\* an answer that looks at the validation result before the escalation
ValidationOutcome_ResultFirst(escalationContext, validationResults) ==
  IF validationResults.isComplete THEN "passed"
  ELSE IF escalationContext # NoEscalation THEN "escalation"
  ELSE "failed"

\* which of the three responses the handler returns
ValidationOutcome(escalationContext, validationResults) ==
  IF escalationContext # NoEscalation THEN "escalation"
  ELSE IF ~validationResults.isComplete THEN "failed"
  ELSE "passed"

\* a call without completedWork: performPhaseValidation throws on
\* completedWork[requirement]; validationState.attempts++ has then been
\* applied to the object stored in validationStates, when there is one, and
\* to a fresh object that is never stored, when there is none
handleValidatePhaseCompletion(phase, work, createdFiles) ==
  IF ~active
  THEN /\ result' = Response("validate_phase_completion", phase, "no_session")
       /\ UNCHANGED <<sessionVars, calls, logVars>>
  ELSE IF ~work.given
  THEN /\ calls < MaxCalls
       /\ calls' = calls + 1
       /\ validationStates' =
            IF phase \in DOMAIN validationStates
            THEN [validationStates EXCEPT ![phase].attempts = @ + 1]
            ELSE validationStates
       /\ result' = [CaughtError("validate_phase_completion") EXCEPT !.target = phase]
       /\ UNCHANGED <<active, currentPhase, completedPhases, phaseOutputs, fileHistory,
                      metrics, workflowConfig, iterationCounts, logVars>>
  ELSE
    LET existing == IF phase \in DOMAIN validationStates
                    THEN validationStates[phase]
                    ELSE [isComplete |-> FALSE, completedRequirements |-> {},
                          failedRequirements |-> {}, attempts |-> 0]
        criteria == getValidationCriteriaForPhase(phase)
        validationResults == performPhaseValidation(work, createdFiles, criteria)
        validationState == [isComplete |-> validationResults.isComplete,
                            completedRequirements |-> validationResults.passed,
                            failedRequirements |-> validationResults.failed,
                            attempts |-> existing.attempts + 1]
        stored == MapSet(validationStates, phase, validationState)
        escalationContext == shouldEscalateToUserInput(phase, stored)
        outcome == ValidationOutcome(escalationContext, validationResults)
    IN /\ calls < MaxCalls
       /\ calls' = calls + 1
       /\ validationStates' = stored
       /\ result' = [Response("validate_phase_completion", phase, outcome)
                       EXCEPT !.trigger = escalationContext.trigger,
                              !.attemptCount = escalationContext.attemptCount,
                              !.nextPhase = IF outcome = "passed"
                                            THEN getNextPhaseRecommendation(phase)
                                            ELSE "none"]
       /\ escalatedLog' = IF outcome = "escalation"
                          THEN escalatedLog \cup {phase} ELSE escalatedLog
       /\ passedLog' = IF outcome = "passed"
                       THEN passedLog \cup {phase} ELSE passedLog
       /\ attemptLog' = MapSet(attemptLog, phase, CountOf(attemptLog, phase) + 1)
       /\ UNCHANGED <<active, currentPhase, completedPhases, phaseOutputs, fileHistory,
                      metrics, workflowConfig, iterationCounts, readLog, deniedLog,
                      ended>>

(***************************************************************************)
(* phase guidance tools                                                    *)
(***************************************************************************)
\* the keys of phaseGuidanceMap (the same in both guidance modes) and the
\* phase each guidance belongs to
phaseGuidanceMap ==
  [audit_inventory_guidance |-> "AUDIT_INVENTORY",
   compare_analyze_guidance |-> "COMPARE_ANALYZE",
   question_determine_guidance |-> "QUESTION_DETERMINE",
   refactor_guidance |-> "WRITE_OR_REFACTOR",
   lint_guidance |-> "LINT",
   iterate_guidance |-> "ITERATE",
   present_guidance |-> "PRESENT"]

handlePhaseGuidance(phaseName) ==
  /\ active => calls < MaxCalls
  /\ calls' = IF active THEN calls + 1 ELSE calls
  /\ UNCHANGED <<active, phaseOutputs, fileHistory, workflowConfig, iterationCounts,
                 validationStates, logVars>>
  /\ IF phaseName \notin DOMAIN phaseGuidanceMap
     THEN /\ result' = CaughtError(phaseName)
          /\ UNCHANGED <<currentPhase, completedPhases, metrics>>
     ELSE /\ updatePhase(phaseGuidanceMap[phaseName])
          /\ result' = [Response(phaseName, phaseGuidanceMap[phaseName],
                                 IF active /\ workflowConfig.defined
                                 THEN "directive" ELSE "suggestive")
                          EXCEPT !.from = IF active THEN currentPhase ELSE "none"]

\* default: throw new Error(`Unknown tool: ${name}`)
UnknownTool(name) ==
  /\ active => calls < MaxCalls
  /\ calls' = IF active THEN calls + 1 ELSE calls
  /\ result' = CaughtError(name)
  /\ UNCHANGED <<sessionVars, logVars>>

\* the switch of the call handler for a name that ends in _guidance
CallGuidanceTool(name) ==
  IF name \in GuidanceCases THEN handlePhaseGuidance(name) ELSE UnknownTool(name)

(***************************************************************************)
(* phase_output                                                            *)
(***************************************************************************)
\* the words validatePhaseSpecificContent looks for in the lower-cased content
PhaseKeywords(phase) ==
  CASE phase = "AUDIT_INVENTORY" ->
         {"audit", "analysis", "dependencies", "inventory", "changes", "modifications"}
    [] phase = "COMPARE_ANALYZE" ->
         {"approach", "option", "comparison", "pros", "cons", "recommend"}
    [] phase = "QUESTION_DETERMINE" ->
         {"question", "assumption", "plan", "step", "implement"}
    [] phase = "WRITE_OR_REFACTOR" ->
         {"implement", "change", "modify", "file", "code", "refactor", "write", "create"}
    [] phase = "TEST" -> {"test", "pass", "fail", "result", "coverage", "metric"}
    [] phase = "LINT" -> {"lint", "error", "warning", "quality", "issue", "fix"}
    [] phase = "ITERATE" -> {"fix", "resolve", "improve", "issue", "iteration", "update"}
    [] phase = "PRESENT" ->
         {"summary", "complete", "result", "recommend", "future", "overview"}
    [] OTHER -> {}

\* an artifact: its format, the length of its trimmed content, whether
\* JSON.parse accepts the content, and the words the content includes
validatePhaseSpecificContent(phase, artifact) ==
  CASE phase = "AUDIT_INVENTORY" ->
         \/ artifact.words \cap PhaseKeywords(phase) # {}
         \/ artifact.format = "json" /\ artifact.words \cap {"changes", "files"} # {}
    [] phase \in {"COMPARE_ANALYZE", "QUESTION_DETERMINE", "WRITE_OR_REFACTOR", "TEST",
                  "LINT", "ITERATE", "PRESENT"} ->
         artifact.words \cap PhaseKeywords(phase) # {}
    [] OTHER -> TRUE

MinContentLength == 10

\* the artifact checks without the minimum-length check
ArtifactErrors_NoLengthCheck(phase, artifact) ==
  (IF artifact.format = "json" /\ ~artifact.parses THEN {"invalid_json"} ELSE {})
  \cup (IF ~validatePhaseSpecificContent(phase, artifact) THEN {"not_phase_content"} ELSE {})

\* the artifact checks without the JSON.parse check
ArtifactErrors_NoJsonCheck(phase, artifact) ==
  (IF artifact.length < MinContentLength THEN {"too_short"} ELSE {})
  \cup (IF ~validatePhaseSpecificContent(phase, artifact) THEN {"not_phase_content"} ELSE {})

\* the validationErrors one artifact adds
ArtifactErrors(phase, artifact) ==
  (IF artifact.length < MinContentLength THEN {"too_short"} ELSE {})
  \cup (IF artifact.format = "json" /\ ~artifact.parses THEN {"invalid_json"} ELSE {})
  \cup (IF ~validatePhaseSpecificContent(phase, artifact) THEN {"not_phase_content"} ELSE {})

\* the validationErrors of the whole submission
validationErrors(phase, outputArtifacts) ==
  UNION {{<<i, e>> : e \in ArtifactErrors(phase, outputArtifacts[i])} :
           i \in 1..Len(outputArtifacts)}

\* a list check that tells a missing list only
hasArtifacts_MissingOnly(given, outputArtifacts) == given

\* params.outputArtifacts && params.outputArtifacts.length !== 0
hasArtifacts(given, outputArtifacts) == given /\ Len(outputArtifacts) # 0

\* { ...params.output, artifacts: params.outputArtifacts }
enrichedOutput(output, outputArtifacts) ==
  [k \in (DOMAIN output) \cup {"artifacts"} |->
     IF k = "artifacts" THEN outputArtifacts ELSE output[k]]

updateMetricsForOutput(phase, output) ==
  IF phase = "LINT" /\ output.hasErrors
  THEN metrics' = [metrics EXCEPT !.lintIssuesFound = output.errorCount]
  ELSE IF phase = "ITERATE" /\ output.hasFixes
       THEN metrics' = [metrics EXCEPT !.lintIssuesFixed = output.fixCount]
       ELSE UNCHANGED metrics

\* a rejection that nevertheless marks the phase completed
RejectOutput_MarksCompleted(phase, outcome, errors) ==
  /\ result' = [Response("phase_output", phase, outcome)
                  EXCEPT !.validationErrors = errors]
  /\ completedPhases' = IF ~Includes(completedPhases, phase)
                        THEN Append(completedPhases, phase)
                        ELSE completedPhases
  /\ UNCHANGED <<phaseOutputs, metrics>>

\* the two early returns of handlePhaseOutput: an error object, nothing recorded
RejectOutput(phase, outcome, errors) ==
  /\ result' = [Response("phase_output", phase, outcome)
                  EXCEPT !.validationErrors = errors]
  /\ UNCHANGED <<completedPhases, phaseOutputs, metrics>>

\* given = FALSE: the call carries no outputArtifacts at all
handlePhaseOutput(phase, output, given, outputArtifacts) ==
  IF ~active
  THEN /\ result' = Response("phase_output", phase, "no_session")
       /\ UNCHANGED <<sessionVars, calls, logVars>>
  ELSE
    /\ calls < MaxCalls
    /\ calls' = calls + 1
    /\ UNCHANGED <<active, currentPhase, fileHistory, workflowConfig, iterationCounts,
                   validationStates, logVars>>
    /\ IF ~hasArtifacts(given, outputArtifacts)
       THEN RejectOutput(phase, "no_artifacts", {})
       ELSE IF validationErrors(phase, outputArtifacts) # {}
       THEN RejectOutput(phase, "invalid_artifacts",
                         validationErrors(phase, outputArtifacts))
       ELSE /\ recordPhaseOutput(phase, enrichedOutput(output, outputArtifacts))
            /\ completedPhases' = IF ~Includes(completedPhases, phase)
                                  THEN Append(completedPhases, phase)
                                  ELSE completedPhases
            /\ updateMetricsForOutput(phase, output)
            /\ result' = Response("phase_output", phase, "recorded")

(***************************************************************************)
(* utils/fileSystem                                                        *)
(***************************************************************************)
phaseMap ==
  [PLANNING |-> 0, AUDIT_INVENTORY |-> 1, COMPARE_ANALYZE |-> 2,
   QUESTION_DETERMINE |-> 3, WRITE_OR_REFACTOR |-> 4, TEST |-> 5, LINT |-> 6,
   ITERATE |-> 7, PRESENT |-> 8]

\* phaseMap[phase] || 99: 0 is falsy as a missing entry is
getPhaseNumber(phase) ==
  IF phase \in DOMAIN phaseMap /\ phaseMap[phase] # 0 THEN phaseMap[phase] ELSE 99

\* the digits of n.toString().padStart(2, '0'), for n below 100
padStart2(n) == IF n < 10 THEN <<0, n>> ELSE <<n \div 10, n % 10>>

\* `${number}-${phaseName}-${date}.${extension}`
generateNumberedFileName(phase) ==
  [digits |-> padStart2(getPhaseNumber(phase)), phaseName |-> phase]

(***************************************************************************)
(* plan_workflow, build_custom_workflow, transport close                   *)
(***************************************************************************)
handlePlanWorkflow ==
  /\ startSession(NoConfig)
  /\ result' = [Response("plan_workflow", "none", "started")
                  EXCEPT !.dropped = readLog]

DefaultSelectedPhases ==
  <<"AUDIT_INVENTORY", "WRITE_OR_REFACTOR", "TEST", "LINT", "PRESENT">>

DefaultIterationLimits ==
  [TEST |-> DefaultTestLimit, LINT |-> DefaultLintLimit, ITERATE |-> DefaultIterateLimit]

\* params: hasSelectedPhases/selectedPhases and the (partial) iterationLimits
\* object; dirOk: the outcome of validateDirectoryAccess on this machine.
\* The session is started before the directory is looked at.  An empty
\* selectedPhases is taken as given ([] is truthy) and the success response,
\* which reads selectedPhases[0].toLowerCase(), throws on it.  detectedType
\* is the type of the suggestion that wraps the response, "none" without;
\* supplied is what the caller passed, before a preset was merged in.
buildCustomWorkflowImplementation(params, supplied, detectedType, dirOk) ==
  LET selectedPhases == IF params.hasSelectedPhases THEN params.selectedPhases
                        ELSE DefaultSelectedPhases
      iterationLimits == [k \in DOMAIN DefaultIterationLimits |->
                            IF k \in DOMAIN params.iterationLimits
                            THEN params.iterationLimits[k]
                            ELSE DefaultIterationLimits[k]]
      config == [defined |-> TRUE,
                 selectedPhases |-> selectedPhases,
                 iterationLimits |-> iterationLimits,
                 escalationTriggers |-> [escalateOnIterationLimit |-> TRUE,
                                         escalateOnErrors |-> TRUE]]
  IN /\ startSession(config)
     /\ result' = [(IF ~dirOk
                    THEN Response("build_custom_workflow", "none", "directory_failed")
                    ELSE IF selectedPhases = << >>
                         THEN CaughtError("build_custom_workflow")
                         ELSE [Response("build_custom_workflow", selectedPhases[1],
                                        "success")
                                 EXCEPT !.planningFileName =
                                           generateNumberedFileName("PLANNING"),
                                        !.nextSuggestedPhase = getNextSuggestedPhase'])
                  EXCEPT !.dropped = readLog, !.detectedType = detectedType,
                         !.supplied = supplied]

\* workflows/WorkflowPresets is not part of the sources.  The preset of the
\* TDD workflow has the phases the README lists for it; its limits are
\* values that differ from the defaults of build_custom_workflow.
getWorkflowPreset(workflowType) ==
  [phases |-> <<"PLANNING", "WRITE_OR_REFACTOR", "TEST", "WRITE_OR_REFACTOR", "TEST",
                "WRITE_OR_REFACTOR", "LINT", "PRESENT">>,
   iterationLimits |-> [TEST |-> 10, LINT |-> 15, ITERATE |-> 20]]

\* { ...base, ...over }
Spread(base, over) ==
  [k \in (DOMAIN base) \cup (DOMAIN over) |->
     IF k \in DOMAIN over THEN over[k] ELSE base[k]]

\* a resolution in which the preset wins over what the caller supplies
UsePreset_PresetFirst(params, preset) ==
  [hasSelectedPhases |-> TRUE,
   selectedPhases |-> preset.phases,
   iterationLimits |-> Spread(params.iterationLimits, preset.iterationLimits)]

\* params.selectedPhases = params.selectedPhases || preset.phases;
\* params.iterationLimits = { ...preset.iterationLimits, ...params.iterationLimits }
UsePreset(params, preset) ==
  [hasSelectedPhases |-> TRUE,
   selectedPhases |-> IF params.hasSelectedPhases THEN params.selectedPhases
                      ELSE preset.phases,
   iterationLimits |-> Spread(preset.iterationLimits, params.iterationLimits)]

\* workflowType: "absent", 'custom' or the name of a preset; detected: what
\* detectWorkflowType makes of the task text, "none" for null.  With a type
\* detected and none given the response is a suggestion that wraps the
\* response of the build.
handleBuildCustomWorkflow(params, workflowType, detected, dirOk) ==
  LET detectedType == IF workflowType = "custom" THEN "none"
                      ELSE IF workflowType # "absent" THEN workflowType
                      ELSE detected
  IN IF detectedType # "none" /\ workflowType = "absent"
     THEN buildCustomWorkflowImplementation(params, params, detectedType, dirOk)
     ELSE buildCustomWorkflowImplementation(
            IF workflowType \notin {"absent", "custom"}
            THEN UsePreset(params, getWorkflowPreset(workflowType))
            ELSE params,
            params, "none", dirOk)

\* an end that leaves the session in place
endSession_KeepsSession ==
  /\ active
  /\ ended' = TRUE
  /\ result' = Response("end_session", "none", "ended")
  /\ UNCHANGED <<sessionVars, calls, readLog, escalatedLog, passedLog, deniedLog,
                 attemptLog>>

\* this.session = null, by end of session or transport.onclose
endSession ==
  /\ active
  /\ active' = FALSE
  /\ currentPhase' = "PLANNING"
  /\ completedPhases' = << >>
  /\ phaseOutputs' = EmptyMap
  /\ fileHistory' = EmptyMap
  /\ metrics' = initializeMetrics
  /\ workflowConfig' = NoConfig
  /\ iterationCounts' = EmptyMap
  /\ validationStates' = EmptyMap
  /\ calls' = 0
  /\ readLog' = {}
  /\ escalatedLog' = {}
  /\ passedLog' = {}
  /\ deniedLog' = {}
  /\ attemptLog' = EmptyMap
  /\ ended' = TRUE
  /\ result' = Response("end_session", "none", "ended")

(***************************************************************************)
(* Inputs                                                                  *)
(***************************************************************************)
CompleteWork(phase) ==
  LET c == getValidationCriteriaForPhase(phase)
  IN [given |-> TRUE, truthy |-> c.boolReqs, nums |-> c.numReqs,
      createdFiles |-> c.expectedFiles]

\* a call that carries no completedWork
MissingWork == [given |-> FALSE, truthy |-> {}, nums |-> EmptyMap, createdFiles |-> {}]

\* the submissions tried on a phase: complete work, and the same work one
\* short on every numeric minimum and with none of the files created
Works(phase) ==
  LET c == getValidationCriteriaForPhase(phase)
      full == CompleteWork(phase)
  IN {full,
      [full EXCEPT !.createdFiles = {},
                   !.nums = [k \in DOMAIN c.numReqs |-> c.numReqs[k] - 1]]}

\* two names the call handler routes and handlePhaseGuidance knows, a name
\* it routes and handlePhaseGuidance does not know, and a name of the tool
\* list that it does not route
GuidanceNames ==
  {"lint_guidance", "refactor_guidance", "audit_guidance", "audit_inventory_guidance"}

\* a well-formed report that mentions the audit, the changes, the test
\* results and the lint errors
ReportArtifact ==
  [format |-> "markdown", length |-> 40, parses |-> FALSE,
   words |-> {"audit", "changes", "test", "result", "lint", "error"}]
\* "x"
ShortArtifact ==
  [format |-> "text", length |-> 1, parses |-> FALSE, words |-> {}]
\* "test lint": the words of a test and of a lint report in nine characters
ShortReportArtifact ==
  [format |-> "text", length |-> 9, parses |-> FALSE, words |-> {"test", "lint"}]
\* a report with a word of every phase, cut off before its closing brace
BrokenJsonArtifact ==
  [format |-> "json", length |-> 80, parses |-> FALSE,
   words |-> {"audit", "approach", "question", "implement", "test", "lint",
              "fix", "summary"}]

ArtifactLists ==
  {<< >>, <<ReportArtifact>>, <<ShortArtifact>>, <<BrokenJsonArtifact>>,
   <<ReportArtifact, ShortReportArtifact>>}

Outputs ==
  {[id |-> 1, hasErrors |-> FALSE, errorCount |-> 0, hasFixes |-> FALSE, fixCount |-> 0],
   [id |-> 2, hasErrors |-> TRUE, errorCount |-> 2, hasFixes |-> FALSE, fixCount |-> 0]}

LimitChoices == {[TEST |-> n, LINT |-> 2] : n \in 0..MaxLimit}

\* a call with nothing but the task, and calls that choose the phases and
\* the limits
BuildParams ==
  {[hasSelectedPhases |-> FALSE, selectedPhases |-> << >>, iterationLimits |-> EmptyMap]}
  \cup {[hasSelectedPhases |-> TRUE,
         selectedPhases |-> <<"AUDIT_INVENTORY", "TEST", "LINT">>,
         iterationLimits |-> l] : l \in LimitChoices}

(***************************************************************************)
(* Specification                                                           *)
(***************************************************************************)
Init ==
  /\ active = FALSE
  /\ currentPhase = "PLANNING"
  /\ completedPhases = << >>
  /\ phaseOutputs = EmptyMap
  /\ fileHistory = EmptyMap
  /\ metrics = initializeMetrics
  /\ workflowConfig = NoConfig
  /\ iterationCounts = EmptyMap
  /\ validationStates = EmptyMap
  /\ result = Response("none", "none", "none")
  /\ calls = 0
  /\ readLog = {}
  /\ escalatedLog = {}
  /\ passedLog = {}
  /\ deniedLog = {}
  /\ attemptLog = EmptyMap
  /\ ended = FALSE

ValidateAction == \E a \in ActionKinds, p \in Paths : handleValidateAction(a, p)

\* the call without completedWork is made on one phase
ValidatePhaseCompletion ==
  \E phase \in ToolPhases :
    \E w \in Works(phase) \cup (IF phase = "TEST" THEN {MissingWork} ELSE {}) :
      handleValidatePhaseCompletion(phase, w, w.createdFiles)

PhaseGuidance == \E name \in GuidanceNames : CallGuidanceTool(name)

\* phases phase_output is also called with: one more phase of the tool's
\* enum, and a phase outside it, which validatePhaseSpecificContent lets pass
OtherOutputPhases == {"PRESENT", "PLANNING"}

\* the broken JSON report is submitted for the other phases too, the other
\* lists for the phases the tools are called with; the output with errors
\* comes with the well-formed report
PhaseOutput ==
  \E phase \in ToolPhases \cup OtherOutputPhases, output \in Outputs, given \in BOOLEAN, list \in ArtifactLists :
    /\ ~given => list = << >>
    /\ phase \notin ToolPhases => list = <<BrokenJsonArtifact>>
    /\ output.hasErrors => (given /\ list = <<ReportArtifact>>)
    /\ handlePhaseOutput(phase, output, given, list)

\* the output directory cannot be created in a call that gives the task only
BuildCustomWorkflow ==
  \E params \in BuildParams, dirOk \in BOOLEAN :
    /\ ~dirOk => ~params.hasSelectedPhases
    /\ handleBuildCustomWorkflow(params, "absent", "none", dirOk)

Next ==
  \/ handlePlanWorkflow
  \/ BuildCustomWorkflow
  \/ endSession
  \/ ValidateAction
  \/ ValidatePhaseCompletion
  \/ PhaseGuidance
  \/ PhaseOutput

Spec == Init /\ [][Next]_vars

(***************************************************************************)
(* Sessions over every list of selected phases                             *)
(***************************************************************************)
\* build_custom_workflow with workflowType 'custom' passes selectedPhases on
\* as it is given: any list of phases, the empty one and lists that repeat
\* a phase included
ListPhases == {"WRITE_OR_REFACTOR", "TEST"}

PhaseLists == UNION {[1..n -> ListPhases] : n \in 0..MaxPhases}

BuildFromList ==
  \E list \in PhaseLists :
    handleBuildCustomWorkflow(
      [hasSelectedPhases |-> TRUE, selectedPhases |-> list, iterationLimits |-> EmptyMap],
      "custom", "none", TRUE)

\* calls that name the TDD workflow or leave the type to the detection,
\* with and without phases and limits of their own
TypedParams ==
  {[hasSelectedPhases |-> h, selectedPhases |-> IF h THEN <<"TEST", "LINT">> ELSE << >>,
    iterationLimits |-> l] : h \in BOOLEAN, l \in {EmptyMap, [TEST |-> 1]}}

BuildWithType ==
  \E params \in TypedParams, workflowType \in {"absent", "tdd"}, detected \in {"none", "tdd"} :
    /\ workflowType = "tdd" => detected = "tdd"
    /\ handleBuildCustomWorkflow(params, workflowType, detected, TRUE)

\* work submitted for a phase of the lists
ValidateListPhase ==
  \E phase \in ListPhases : \E w \in Works(phase) :
    handleValidatePhaseCompletion(phase, w, w.createdFiles)

NextConfig ==
  \/ BuildFromList
  \/ BuildWithType
  \/ PhaseGuidance
  \/ ValidateListPhase

SpecConfig == Init /\ [][NextConfig]_vars

(***************************************************************************)
(* Properties                                                              *)
(***************************************************************************)
NoDuplicates(seq) == \A i, j \in 1..Len(seq) : i # j => seq[i] # seq[j]

IsPrefix(s, t) == Len(s) <= Len(t) /\ \A i \in 1..Len(s) : s[i] = t[i]

StartTools == {"plan_workflow", "build_custom_workflow"}

\* C1: within a session a validate_action call for a modification of path p
\* is denied exactly when no read of p has been recorded earlier in the
\* session; after a recorded read every modification of p is allowed,
\* whatever calls come in between.
C1_ReadBeforeWrite ==
  [][(active /\ result'.tool = "validate_action" /\ result'.action.modification)
       => (result'.outcome = "denied" <=> result'.target \notin readLog)]_vars

\* a modification allowed after a read, with a guidance call made in the
\* same session, while the other path is still unread
C1_Witness ==
  /\ active
  /\ result.tool = "validate_action"
  /\ result.action.modification /\ ~result.action.mentionsRead
  /\ result.outcome = "allowed"
  /\ result.target \in readLog
  /\ readLog # Paths
  /\ currentPhase # "PLANNING"

\* C2: across the calls made on a session completedPhases only grows at its
\* end (no element is lost or moved) and never holds a phase twice.
C2_CompletedPhasesMonotonic ==
  [][(active /\ result'.tool \notin StartTools /\ active')
       => (IsPrefix(completedPhases, completedPhases')
           /\ NoDuplicates(completedPhases'))]_vars

\* an output recorded for a phase that had been completed earlier, other
\* phases having been completed after it
C2_Witness ==
  /\ active
  /\ result.tool = "phase_output" /\ result.outcome = "recorded"
  /\ Len(completedPhases) >= 2
  /\ completedPhases[1] = result.target

AttemptsOn(phase) ==
  IF phase \in DOMAIN validationStates THEN validationStates[phase].attempts ELSE 0

LastValidationFailedWork ==
  /\ result.tool = "validate_phase_completion"
  /\ result.outcome # "error"
  /\ result.target \in DOMAIN validationStates
  /\ ~validationStates[result.target].isComplete

\* C4: with iterationLimits.TEST = N > 0 the (N+1)-th validation attempt on
\* TEST, when its work fails the criteria, is answered with an escalation.
C4_EscalationThreshold ==
  (/\ active /\ workflowConfig.defined
   /\ workflowConfig.iterationLimits.TEST > 0
   /\ LastValidationFailedWork
   /\ result.target = "TEST"
   /\ AttemptsOn("TEST") = workflowConfig.iterationLimits.TEST + 1)
  => result.outcome = "escalation"

\* C5: with iterationLimits.LINT = 2, the third of three failed LINT
\* validations in a row is an escalation with trigger iteration_limit and
\* attemptCount 3.
C5_LintScenario ==
  (/\ active /\ workflowConfig.defined
   /\ workflowConfig.iterationLimits.LINT = 2
   /\ LastValidationFailedWork
   /\ result.target = "LINT"
   /\ "LINT" \notin passedLog
   /\ AttemptsOn("LINT") = 3)
  => (/\ result.outcome = "escalation"
      /\ result.trigger = "iteration_limit"
      /\ result.attemptCount = 3)

\* the escalation rule as the specification states it, on the session as the
\* attempt leaves it
EscalationRule(phase) ==
  \/ /\ workflowConfig.escalationTriggers.escalateOnIterationLimit
     /\ phase \in DOMAIN workflowConfig.iterationLimits
     /\ CountOf(iterationCounts, phase) >= workflowConfig.iterationLimits[phase]
  \/ /\ workflowConfig.escalationTriggers.escalateOnErrors
     /\ AttemptsOn(phase) >= 3

\* C6: a validation attempt (a call that carries completedWork, so that it
\* is validated) is answered with an escalation if and only if (a) the
\* iteration count has reached the phase's limit and
\* escalateOnIterationLimit is set, or (b) the phase has 3 or more attempts and
\* escalateOnErrors is set.
C6_EscalationRule ==
  (active /\ result.tool = "validate_phase_completion" /\ result.outcome # "error")
  => (result.outcome = "escalation" <=> EscalationRule(result.target))

\* an escalation by rule (b) on the third attempt
C6_Witness ==
  /\ active
  /\ result.tool = "validate_phase_completion"
  /\ result.outcome = "escalation"
  /\ result.trigger = "validation_failure"
  /\ AttemptsOn(result.target) = 3

\* C7: once a validation attempt on a phase was answered with an escalation,
\* every later validation attempt on that phase in the session (every later
\* validate_phase_completion that carries completedWork) is answered with an
\* escalation again.
C7_EscalationIsTerminal ==
  [][(active /\ result'.tool = "validate_phase_completion"
        /\ result'.outcome # "error"
        /\ result'.target \in escalatedLog)
       => result'.outcome = "escalation"]_vars

\* a further attempt, this time with complete work, on a phase whose
\* earlier attempt had escalated: it is answered with an escalation again
C7_Witness ==
  /\ active
  /\ result.tool = "validate_phase_completion"
  /\ result.outcome = "escalation"
  /\ result.target \in escalatedLog
  /\ AttemptsOn(result.target) >= 2
  /\ hasReachedIterationLimit(result.target)
  /\ validationStates[result.target].isComplete

\* C8: a validate_phase_completion call that fails or escalates, and a
\* phase_output call rejected for invalid artifacts, leave completedPhases,
\* phaseOutputs and currentPhase as they were.
C8_FailureMutatesNothing ==
  [][(active /\ (\/ /\ result'.tool = "validate_phase_completion"
                    /\ result'.outcome \in {"failed", "escalation"}
                 \/ /\ result'.tool = "phase_output"
                    /\ result'.outcome = "invalid_artifacts"))
       => UNCHANGED <<completedPhases, phaseOutputs, currentPhase>>]_vars

\* a submission rejected for invalid artifacts in a session that already has
\* a completed phase and a recorded output, for a phase not yet completed
C8_Witness ==
  /\ active
  /\ result.tool = "phase_output" /\ result.outcome = "invalid_artifacts"
  /\ DOMAIN phaseOutputs # {}
  /\ ~Includes(completedPhases, result.target)

\* C9: phase_output records a phase only if the phase's completion
\* validation has passed in the session.
C9_CompletionGated ==
  (active /\ result.tool = "phase_output" /\ result.outcome = "recorded")
  => result.target \in passedLog

\* the requested phase keeps to the configured sequence: it is the phase
\* after the current one, the first selected phase at the start, or the
\* current phase itself
InOrder(phase) ==
  \/ phase = currentPhase
  \/ phase = getNextSuggestedPhase
  \/ currentPhase = "PLANNING" /\ phase = workflowConfig.selectedPhases[1]

\* the guidance tools the call handler routes and handlePhaseGuidance knows
RoutedGuidance == GuidanceCases \cap DOMAIN phaseGuidanceMap

GuidanceStep ==
  /\ active /\ workflowConfig.defined
  /\ result'.tool \in RoutedGuidance

TimesIn(seq, x) == Cardinality({i \in 1..Len(seq) : seq[i] = x})

\* C11: after an accepted phase_output for phase p, phaseOutputs[p] holds
\* the submitted output, every key with the value submitted, together with
\* the submitted artifacts, whatever output p had before, and p is in
\* completedPhases exactly once.
C11_OutputUpserted ==
  [][(active /\ result'.tool = "phase_output" /\ result'.outcome = "recorded")
       => \A output \in Outputs, list \in ArtifactLists :
            handlePhaseOutput(result'.target, output, TRUE, list)
            => (/\ result'.target \in DOMAIN phaseOutputs'
                /\ \A k \in DOMAIN output :
                     phaseOutputs'[result'.target][k] = output[k]
                /\ phaseOutputs'[result'.target].artifacts = list
                /\ TimesIn(completedPhases', result'.target) = 1)]_vars

\* a LINT output without errors recorded over an earlier LINT output that
\* reported two errors
C11_Witness ==
  /\ active
  /\ result.tool = "phase_output" /\ result.outcome = "recorded"
  /\ result.target = "LINT"
  /\ ~phaseOutputs["LINT"].hasErrors
  /\ metrics.lintIssuesFound = 2
  /\ TimesIn(completedPhases, "LINT") = 1

HasBrokenJson(list) ==
  \E i \in 1..Len(list) : list[i].format = "json" /\ ~list[i].parses

\* C12: in every phase a phase_output submission with a json artifact whose
\* content JSON.parse refuses is rejected with an Invalid JSON error, and the
\* session is left as it was; the artifact checks report the broken JSON
\* for each of the phases.
C12_InvalidJsonRejected ==
  [][(active /\ result'.tool = "phase_output")
       => /\ \A phase \in Phase :
               "invalid_json" \in ArtifactErrors(phase, BrokenJsonArtifact)
          /\ \A output \in Outputs, list \in ArtifactLists :
               (HasBrokenJson(list)
                  /\ handlePhaseOutput(result'.target, output, TRUE, list))
               => (/\ result'.outcome = "invalid_artifacts"
                   /\ \E i \in 1..Len(list) :
                        <<i, "invalid_json">> \in result'.validationErrors
                   /\ UNCHANGED sessionVars)]_vars

\* a PRESENT submission rejected for nothing but its broken JSON, in a
\* session that has outputs recorded
C12_Witness ==
  /\ active
  /\ result.tool = "phase_output" /\ result.outcome = "invalid_artifacts"
  /\ result.target = "PRESENT"
  /\ result.validationErrors = {<<1, "invalid_json">>}
  /\ DOMAIN phaseOutputs # {}

HasShortContent(list) == \E i \in 1..Len(list) : list[i].length < 10

\* C13: a phase_output submission with an artifact whose trimmed content has
\* fewer than 10 characters is rejected as a whole: no output is recorded
\* and the phase is not marked completed, even when its other artifacts are
\* valid.
C13_ShortContentRejected ==
  [][(active /\ result'.tool = "phase_output")
       => \A output \in Outputs, list \in ArtifactLists :
            (HasShortContent(list)
               /\ handlePhaseOutput(result'.target, output, TRUE, list))
            => (/\ result'.outcome = "invalid_artifacts"
                /\ \E i \in 1..Len(list) :
                     <<i, "too_short">> \in result'.validationErrors
                /\ UNCHANGED <<phaseOutputs, completedPhases, metrics>>)]_vars

\* a submission of two artifacts whose only error is the length of the
\* second, for a phase that is not completed
C13_Witness ==
  /\ active
  /\ result.tool = "phase_output" /\ result.outcome = "invalid_artifacts"
  /\ result.validationErrors = {<<2, "too_short">>}
  /\ ~Includes(completedPhases, result.target)
  /\ result.target \notin DOMAIN phaseOutputs

C15_DenialIsLocal ==
  [][(active /\ result'.tool = "validate_action")
       => (/\ result'.outcome = "denied" => UNCHANGED <<fileHistory, metrics>>
           /\ (/\ <<result'.action, result'.target>> \in deniedLog
               /\ result'.target \in readLog)
              => result'.outcome = "allowed")]_vars

\* a modification that is allowed and recorded, the same call having been
\* denied earlier in the session
C15_Witness ==
  /\ active
  /\ result.tool = "validate_action" /\ result.outcome = "allowed"
  /\ result.action.modification /\ ~result.action.mentionsRead
  /\ <<result.action, result.target>> \in deniedLog
  /\ getFileHistory(result.target).hasBeenModified

\* the answer as a function of the action and of the read flag of its path
Decision(action, hasBeenRead) ==
  IF action.modification /\ ~hasBeenRead THEN "denied" ELSE "allowed"

\* C16: the answer of validate_action is a function of the action and of
\* whether its path has been read, and of nothing else in the session:
\* sessions that agree on the read flag get the same answer whatever their
\* currentPhase, completedPhases and workflow configuration.
C16_DecisionIndependentOfPhase ==
  [][(active /\ result'.tool = "validate_action")
       => result'.outcome =
            Decision(result'.action, getFileHistory(result'.target).hasBeenRead)]_vars

\* a modification denied in a configured session that has left PLANNING and
\* has a completed phase, the other path having been read
C16_Witness ==
  /\ active /\ workflowConfig.defined
  /\ result.tool = "validate_action" /\ result.outcome = "denied"
  /\ currentPhase # "PLANNING"
  /\ Len(completedPhases) > 0
  /\ readLog # {}

HistoryOf(map, filePath) ==
  IF filePath \in DOMAIN map THEN map[filePath] ELSE DefaultFileHistory

\* C17: an allowed validate_action records its effect: a read of p sets
\* hasBeenRead for p, a modification of p sets hasBeenModified for p, and
\* the entry of no other path changes.
C17_AllowedActionRecorded ==
  [][(active /\ result'.tool = "validate_action" /\ result'.outcome = "allowed")
       => (/\ result'.action.mentionsRead
                => HistoryOf(fileHistory', result'.target).hasBeenRead
           /\ result'.action.modification
                => HistoryOf(fileHistory', result'.target).hasBeenModified
           /\ \A p \in Paths \ {result'.target} :
                HistoryOf(fileHistory', p) = HistoryOf(fileHistory, p))]_vars

SessionTools ==
  {"validate_action", "validate_phase_completion", "phase_output"}
    \cup RoutedGuidance

\* C18: a session operation called while no session is active answers with
\* an explicit no-active-session signal.
C18_NoSessionSignal ==
  (~active /\ result.tool \in SessionTools) => result.noSession

GuidanceCall == active /\ result'.tool \in RoutedGuidance

\* C19 as stated: updatePhase sets currentPhase to the requested phase and
\* appends the previous current phase to completedPhases whenever it was not
\* already there, for every requested phase.
C19_AdvancePhase ==
  [][GuidanceCall
       => (/\ currentPhase' = phaseGuidanceMap[result'.tool]
           /\ completedPhases' =
                IF ~Includes(completedPhases, currentPhase)
                THEN Append(completedPhases, currentPhase)
                ELSE completedPhases)]_vars

\* C19 amended: updatePhase sets currentPhase to the requested phase; it
\* appends the previous current phase to completedPhases when that phase
\* differs from the requested one and was not already there, and leaves
\* completedPhases unchanged otherwise.
C19_AdvancePhaseToOther ==
  [][GuidanceCall
       => (/\ currentPhase' = phaseGuidanceMap[result'.tool]
           /\ completedPhases' =
                IF /\ currentPhase # phaseGuidanceMap[result'.tool]
                   /\ ~Includes(completedPhases, currentPhase)
                THEN Append(completedPhases, currentPhase)
                ELSE completedPhases)]_vars

\* lint_guidance requested in LINT, which is not completed: LINT stays the
\* current phase and is not appended
C19_Witness ==
  /\ active
  /\ result.tool = "lint_guidance"
  /\ result.from = "LINT"
  /\ currentPhase = "LINT"
  /\ ~Includes(completedPhases, "LINT")

\* C20: a start call replaces the session: the new session has no completed
\* phase, output, file history, iteration count or validation state of the
\* earlier one, its read flags are those of the reads recorded since the
\* start, and a modification of a path not read since the start is denied.
C20_StartReplacesSession ==
  [][/\ result'.tool \in StartTools
          => (/\ active'
              /\ completedPhases' = << >>
              /\ DOMAIN phaseOutputs' = {}
              /\ DOMAIN fileHistory' = {}
              /\ DOMAIN iterationCounts' = {}
              /\ DOMAIN validationStates' = {})
     /\ active => \A p \in Paths : getFileHistory(p).hasBeenRead <=> p \in readLog
     /\ (active /\ result'.tool = "validate_action"
           /\ result'.action.modification /\ result'.target \notin readLog)
          => result'.outcome = "denied"]_vars

\* a session just started in place of a session that had recorded reads
C20_Witness ==
  /\ active
  /\ result.tool \in StartTools
  /\ result.dropped # {}
  /\ fileHistory = EmptyMap
  /\ \A p \in Paths : ~getFileHistory(p).hasBeenRead

(***************************************************************************)
(* End of session                                                          *)
(***************************************************************************)
\* the session variables as they are when there is no session
NoSessionState ==
  /\ ~active
  /\ currentPhase = "PLANNING"
  /\ completedPhases = << >>
  /\ phaseOutputs = EmptyMap
  /\ fileHistory = EmptyMap
  /\ metrics = initializeMetrics
  /\ workflowConfig = NoConfig
  /\ iterationCounts = EmptyMap
  /\ validationStates = EmptyMap

\* C21: ending the session discards all of its state and leaves no session;
\* from then on, until a call that starts a session, there is no session
\* and every phase_output and validate_phase_completion call answers that
\* no session is active.
C21_EndDiscardsSession ==
  [][/\ result'.tool = "end_session" => NoSessionState'
     /\ (ended /\ result'.tool \notin StartTools) => (ended' /\ NoSessionState')
     /\ (ended /\ result'.tool \in {"phase_output", "validate_phase_completion"})
          => (result'.outcome = "no_session" /\ result'.noSession)]_vars

\* a phase_output call made after the end of a session, before any start
C21_Witness ==
  /\ ended
  /\ ~active
  /\ result.tool = "phase_output"
  /\ result.outcome = "no_session"

(***************************************************************************)
(* build_custom_workflow on a directory that cannot be used                *)
(***************************************************************************)
\* C22: a build_custom_workflow call that fails on the output directory
\* leaves the session state as it was: the session before the call, or the
\* absence of one, is unchanged.
C22_DirectoryFailureKeepsSession ==
  [][result'.outcome = "directory_failed" => UNCHANGED sessionVars]_vars

(***************************************************************************)
(* The transport boundary                                                  *)
(***************************************************************************)
\* the answers a call can get: results of the handlers and the structured
\* error of the call handler
StructuredOutcomes ==
  {"none", "started", "success", "directory_failed", "ended", "allowed", "denied",
   "no_session", "passed", "failed", "escalation", "directive", "suggestive",
   "recorded", "no_artifacts", "invalid_artifacts", "error"}

\* C23: no call throws across the transport: whatever the tool name, the
\* arguments and the session state, the answer is a result of a handler or
\* the structured error of the call handler.
C23_NoThrow == result.outcome \in StructuredOutcomes

\* an exception inside a handler (a validation without completedWork) and a
\* tool name the call handler does not know, both in a session
C23_Witness ==
  /\ active
  /\ result.outcome = "error"
  /\ result.tool \in {"validate_phase_completion", "audit_inventory_guidance"}

(***************************************************************************)
(* The selected phases and the next phase                                  *)
(***************************************************************************)
\* what the next-phase computation is to return for phase current in list
NextPhaseOf(list, current, next) ==
  /\ \A i \in 1..(Len(list) - 1) : list[i] = current => next = list[i + 1]
  /\ next = "none" <=> (~Includes(list, current) \/ list[Len(list)] = current)

\* C24: in a session with a configuration the next phase, as suggested for
\* the current phase and as recommended by a passed validation for its
\* phase, is selectedPhases[i + 1] when the phase is at an index i that is
\* not the last, and is none exactly when the phase is the last selected
\* phase or is not selected.
C24_NextPhase ==
  (active /\ workflowConfig.defined) =>
    /\ NextPhaseOf(workflowConfig.selectedPhases, currentPhase, getNextSuggestedPhase)
    /\ (result.tool = "validate_phase_completion" /\ result.outcome = "passed")
         => NextPhaseOf(workflowConfig.selectedPhases, result.target, result.nextPhase)

\* C29: in every session with a configuration selectedPhases is not empty
\* and names no phase twice.
C29_SelectedPhasesWellFormed ==
  (active /\ workflowConfig.defined) =>
    /\ workflowConfig.selectedPhases # << >>
    /\ NoDuplicates(workflowConfig.selectedPhases)

(***************************************************************************)
(* Guidance out of order                                                   *)
(***************************************************************************)
\* C25: in a session a guidance request for a known phase, made with the
\* guidance tool of that phase, succeeds and makes the phase the current
\* phase, whatever the current phase, the completed phases and the
\* validations and escalations before it.
C25_GuidanceNeverBlocked ==
  [][(active /\ result'.tool \in DOMAIN phaseGuidanceMap)
       => (/\ result'.outcome \in {"directive", "suggestive"}
           /\ currentPhase' = phaseGuidanceMap[result'.tool])]_vars

(***************************************************************************)
(* Validation attempts                                                     *)
(***************************************************************************)
\* C26: in every session, with or without a configuration, a phase gets a
\* plain failure on a bounded number of validation attempts only: at the
\* third attempt at the latest the answer to work that fails is an
\* escalation.
C26_RetriesBounded ==
  (active /\ result.tool = "validate_phase_completion" /\ result.outcome = "failed")
    => AttemptsOn(result.target) < 3

\* C27: in a session the attempts of every phase equal the number of
\* validate_phase_completion calls the phase has been answered, 0 before
\* the first; calls on other phases do not count.
C27_AttemptsCountCalls ==
  active => \A phase \in ToolPhases : AttemptsOn(phase) = CountOf(attemptLog, phase)

(***************************************************************************)
(* The validation result                                                   *)
(***************************************************************************)
\* no check of the criteria of phase fails on the submitted work: every
\* numeric minimum is reached, every boolean requirement is truthy, every
\* expected file is among the created files
NoCheckFails(phase, work, createdFiles) ==
  LET c == getValidationCriteriaForPhase(phase)
  IN /\ \A k \in DOMAIN c.numReqs :
          \/ k \in DOMAIN work.nums /\ work.nums[k] >= c.numReqs[k]
          \/ k \notin DOMAIN work.nums /\ k \in work.truthy /\ 1 >= c.numReqs[k]
     /\ \A k \in c.boolReqs :
          \/ k \in work.truthy
          \/ k \in DOMAIN work.nums /\ work.nums[k] # 0
     /\ c.expectedFiles \subseteq createdFiles

\* complete work and the submissions with one thing wrong: a boolean
\* requirement not met, a number one short of its minimum, an expected
\* file not created, true submitted where a number is expected
Submissions(phase) ==
  LET c == getValidationCriteriaForPhase(phase)
      full == CompleteWork(phase)
  IN {full}
     \cup {[full EXCEPT !.truthy = @ \ {k}] : k \in c.boolReqs}
     \cup {[full EXCEPT !.nums[k] = @ - 1] : k \in DOMAIN c.numReqs}
     \cup {[full EXCEPT !.createdFiles = @ \ {f}] : f \in c.expectedFiles}
     \cup {[full EXCEPT !.truthy = @ \cup {k},
                        !.nums = [j \in (DOMAIN c.numReqs) \ {k} |-> c.numReqs[j]]] :
              k \in DOMAIN c.numReqs}

C30_RecordingIsIdempotent ==
  [][(/\ active
      /\ result'.tool = "validate_action"
      /\ result'.outcome = "allowed"
      /\ \/ result'.action.mentionsRead /\ getFileHistory(result'.target).hasBeenRead
         \/ /\ ~result'.action.mentionsRead
            /\ isModificationAction(result'.action)
            /\ getFileHistory(result'.target).hasBeenModified)
       => UNCHANGED sessionVars]_vars

(***************************************************************************)
(* Numbered file names                                                     *)
(***************************************************************************)
\* the order of two file names, which their leading digits decide
FileNameLess(a, b) ==
  \/ a.digits[1] < b.digits[1]
  \/ a.digits[1] = b.digits[1] /\ a.digits[2] < b.digits[2]

\* C31: the name of a file starts with the two digits of the number the
\* phase table gives its phase (the planning file of a built workflow with
\* those of PLANNING), and the names of the files of two phases of the
\* table are ordered as the phases are in the table.
C31_NumberedFileNames ==
  (result.tool = "build_custom_workflow" /\ result.outcome = "success") =>
    /\ result.planningFileName.digits = padStart2(phaseMap["PLANNING"])
    /\ \A p, q \in DOMAIN phaseMap :
         phaseMap[p] < phaseMap[q]
           <=> FileNameLess(generateNumberedFileName(p), generateNumberedFileName(q))

(***************************************************************************)
(* Presets and the caller's choice                                         *)
(***************************************************************************)
\* C32: the session a build_custom_workflow call creates has the
\* selectedPhases the caller supplied and, for every limit the caller
\* supplied, the supplied value, whatever workflow type the call names and
\* whatever type is detected from the task.
C32_ExplicitChoiceKept ==
  (active /\ result.tool = "build_custom_workflow")
    => /\ result.supplied.hasSelectedPhases
            => workflowConfig.selectedPhases = result.supplied.selectedPhases
       /\ \A k \in DOMAIN result.supplied.iterationLimits :
            workflowConfig.iterationLimits[k] = result.supplied.iterationLimits[k]

\* a session built by a call that names the TDD workflow and supplies its
\* own phases and its own TEST limit
C32_Witness ==
  /\ active
  /\ result.tool = "build_custom_workflow"
  /\ result.outcome = "success"
  /\ result.supplied.hasSelectedPhases
  /\ DOMAIN result.supplied.iterationLimits = {"TEST"}
  /\ workflowConfig.selectedPhases = <<"TEST", "LINT">>
  /\ workflowConfig.iterationLimits = [TEST |-> 1, LINT |-> 15, ITERATE |-> 20]

(***************************************************************************)
(* The file history through the tools                                      *)
(***************************************************************************)
\* C33: in every state a session reaches through the tools a path recorded
\* as modified is recorded as read, and a path recorded as read stays so
\* until the session ends or another is started.
C33_ModifiedImpliesRead ==
  [][/\ active' => \A p \in DOMAIN fileHistory' :
                     fileHistory'[p].hasBeenModified => fileHistory'[p].hasBeenRead
     /\ (active /\ result'.tool \notin StartTools \cup {"end_session"})
          => \A p \in DOMAIN fileHistory :
               fileHistory[p].hasBeenRead
                 => (p \in DOMAIN fileHistory' /\ fileHistory'[p].hasBeenRead)]_vars

\* a path read and then modified
C33_Witness ==
  /\ active
  /\ result.tool = "validate_action"
  /\ result.target \in DOMAIN fileHistory
  /\ fileHistory[result.target].hasBeenModified
  /\ fileHistory[result.target].hasBeenRead

(***************************************************************************)
(* Escalation and complete work                                            *)
(***************************************************************************)
\* C34: a validation attempt on which the escalation condition holds is
\* answered with an escalation, not with a pass, also when the submitted
\* work meets every criterion of the phase.
C34_EscalationBeforeResult ==
  (/\ active
   /\ result.tool = "validate_phase_completion"
   /\ result.outcome # "error"
   /\ validationStates[result.target].isComplete
   /\ EscalationRule(result.target))
    => (result.outcome = "escalation" /\ result.trigger # "none")

\* complete work submitted on the third attempt of a phase whose limit is
\* not reached: an escalation for validation failure
C34_Witness ==
  /\ active
  /\ result.tool = "validate_phase_completion"
  /\ result.outcome = "escalation"
  /\ result.trigger = "validation_failure"
  /\ validationStates[result.target].isComplete
  /\ AttemptsOn(result.target) = 3

(***************************************************************************)
(* The tool list and the call handler                                      *)
(***************************************************************************)
\* C35: a call of a listed phase guidance tool does not end in the error
\* of an unknown tool or an unknown phase guidance.
C35_ListedToolsAccepted ==
  result.tool \in DOMAIN phaseGuidanceMap => result.outcome # "error"

(***************************************************************************)
(* Following the suggested next phase                                      *)
(***************************************************************************)
\* the phases visited from phase by moving to the next phase of the
\* configured list, at most fuel of them
RECURSIVE Walk(_, _)
Walk(phase, fuel) ==
  IF fuel = 0 THEN << >>
  ELSE IF getNextPhaseRecommendation(phase) = "none" THEN <<phase>>
  ELSE <<phase>> \o Walk(getNextPhaseRecommendation(phase), fuel - 1)

\* C36: for the list of phases of a configured session, starting at the
\* first selected phase and moving to the next phase again and again visits
\* the entries of selectedPhases in order and then finds the workflow
\* complete.
C36_WalkVisitsAll ==
  (active /\ workflowConfig.defined /\ workflowConfig.selectedPhases # << >>)
    => Walk(workflowConfig.selectedPhases[1], Len(workflowConfig.selectedPhases) + 1)
         = workflowConfig.selectedPhases

\* C37: right after build_custom_workflow has created a session the next
\* suggested phase of the workflow progress is the first selected phase,
\* the phase the response names as nextPhase.
C37_FirstPhaseSuggested ==
  (result.tool = "build_custom_workflow" /\ result.outcome = "success")
    => /\ result.target = workflowConfig.selectedPhases[1]
       /\ result.nextSuggestedPhase = result.target
       /\ getNextSuggestedPhase = result.target

\* C38: in a configured session completedPhases holds selected phases only
\* and the progressPercentage is a number from 0 to 100.
C38_ProgressInRange ==
  (active /\ workflowConfig.defined)
    => /\ \A i \in 1..Len(completedPhases) :
            Includes(workflowConfig.selectedPhases, completedPhases[i])
       /\ progressPercentage.isFinite
       /\ progressPercentage.value \in 0..100

\* C39: after a guidance request that is answered with guidance and after
\* an accepted phase_output, metrics.phasesCompleted is the length of
\* completedPhases.
C39_PhasesCompletedCounts ==
  (/\ active
   /\ \/ result.outcome \in {"directive", "suggestive"}
      \/ result.tool = "phase_output" /\ result.outcome = "recorded")
    => metrics.phasesCompleted = Len(completedPhases)

====
